---------------------------- MODULE Spec2Model ----------------------------
(***************************************************************************)
(* Model of `#[derive(GraphQLInterface)]` expansion                        *)
(* (juniper_codegen/src/graphql_interface/derive.rs).                      *)
(*                                                                         *)
(* One behaviour is one run of `expand` on one derive input.  The input    *)
(* (`ast`) is fixed by Init; the actions are the consecutive blocks of     *)
(* `expand`, with `parse_field` applied to one source field per step.      *)
(* Identifiers and names are sequences of one-character strings; the raw   *)
(* identifier prefix `r#` is the single token "r#".                        *)
(***************************************************************************)
EXTENDS Integers, Sequences, FiniteSets, TLC

VARIABLES
    ast,      \* the derive input: result of syn::parse2 and of the attribute parsers
    pc,       \* position of the run inside `expand`
    name,     \* `name` (line 32), an option until it is computed
    fields,   \* `fields` (line 56): the retained field::Definition values, in order
    idx,      \* number of source fields the iterator of line 58 has yielded
    diags,    \* diagnostics emitted through proc_macro_error, in emission order
    result,   \* what the run ends with: nothing yet, Err(e), Ok(Definition) or an abort
    \* juniper_rocket/src/lib.rs: one request through from_form and execute
    rpc,             \* position of the request: "idle", "form", "execute", "done"
    form_items,      \* the form items handed to from_form, in form order
    strict,          \* the `strict` argument of from_form
    form_pos,        \* number of form items the loop of line 317 has consumed
    query,           \* `query` of from_form (line 313)
    operation_name,  \* `operation_name` of from_form (line 314)
    variables,       \* `variables` of from_form (line 315)
    form_result,     \* what from_form returned
    request,         \* the GraphQLBatchRequest inside the GraphQLRequest
    responses,       \* responses of the operations executed so far, in order
    http_response    \* the GraphQLResponse(status, json) of execute

expandVars == <<ast, pc, name, fields, idx, diags, result>>

rocketVars ==
    <<rpc, form_items, strict, form_pos, query, operation_name, variables,
      form_result, request, responses, http_response>>

vars == <<expandVars, rocketVars>>

(***************************************************************************)
(* Bounds and input alphabets                                              *)
(***************************************************************************)
MaxFields == 2

None == [some |-> FALSE]
Some(x) == [some |-> TRUE, v |-> x]

U == "_"

StructIdents == { <<"X">>, <<"r#", U, U, "X">> }
StructNames == { None, Some(<<"Y">>), Some(<<U, U, "Y">>) }
RenameRules == { "None", "CamelCase" }
RenameOpts == { None, Some("None") }
EnumOpts == { None, Some(<<"E">>) }

FieldIdents == { <<"a">>, <<"a", U, "b">>, <<U, U, "a">> }
FieldNames == { None, Some(<<"a", "B">>), Some(<<U, U, "x">>) }

NoIdent == <<>>

(***************************************************************************)
(* Strings                                                                 *)
(***************************************************************************)
StartsWith(s, p) ==
    /\ Len(s) >= Len(p)
    /\ SubSeq(s, 1, Len(p)) = p

DoubleUnderscore == <<U, U>>

Unraw(id) == IF Len(id) > 0 /\ Head(id) = "r#" THEN Tail(id) ELSE id

Upper(c) ==
    CASE c = "a" -> "A"
      [] c = "b" -> "B"
      [] c = "x" -> "X"
      [] OTHER -> c

RECURSIVE CamelParts(_, _, _)
CamelParts(s, firstPart, partStart) ==
    IF s = <<>> THEN <<>>
    ELSE IF Head(s) = U THEN CamelParts(Tail(s), FALSE, TRUE)
    ELSE <<IF ~firstPart /\ partStart THEN Upper(Head(s)) ELSE Head(s)>>
             \o CamelParts(Tail(s), firstPart, FALSE)

ToCamelCase(s) ==
    IF StartsWith(s, DoubleUnderscore)
    THEN DoubleUnderscore \o CamelParts(SubSeq(s, 3, Len(s)), TRUE, TRUE)
    ELSE IF StartsWith(s, <<U>>) THEN CamelParts(Tail(s), TRUE, TRUE)
    ELSE CamelParts(s, TRUE, TRUE)

RenameApply(rule, s) == IF rule = "CamelCase" THEN ToCamelCase(s) ELSE s

(***************************************************************************)
(* Spans and diagnostics                                                   *)
(***************************************************************************)
Span(at, i) == [at |-> at, i |-> i]

StructSpan == Span("struct", 0)
StructIdentSpan == Span("struct_ident", 0)
StructAttrSpan == Span("struct_attr", 0)
StructAttrNameSpan == Span("struct_attr_name", 0)
InputSpan == Span("input", 0)
FieldSpan(i) == Span("field", i)
FieldIdentSpan(i) == Span("field_ident", i)
FieldAttrSpan(i) == Span("field_attr", i)
FieldAttrNameSpan(i) == Span("field_attr_name", i)

Diag(msg, span) == [msg |-> msg, span |-> span]

MsgNotStruct == "can only be derived on structs"
MsgNoFields == "must have at least one field"
MsgDuplicate == "must have a different name for each field"
MsgUnnamed == "expected named struct field"
MsgReserved == "must not have a name which begins with __"
MsgAttr == "attribute parse error"
MsgSyntax == "derive input parse error"

EmitCustom(span, msg) == <<Diag(msg, span)>>

NoDoubleUnderscoreDiag(span) == <<Diag(MsgReserved, span)>>

CustomError(span, msg) == Diag(msg, span)

AbortIfDirty(d) == Len(d) > 0

(***************************************************************************)
(* Inputs                                                                  *)
(***************************************************************************)
StructAttrs ==
    [ name : StructNames, is_internal : BOOLEAN,
      rename_fields : RenameOpts, enum : EnumOpts ]

DefaultStructAttr ==
    [ name |-> None, is_internal |-> FALSE, rename_fields |-> None, enum |-> None ]

FieldAttrs == [ name : FieldNames, ignore : BOOLEAN ]

DefaultFieldAttr == [ name |-> None, ignore |-> FALSE ]

NamedFields ==
    [ ident : FieldIdents, attr_ok : {TRUE}, attr : FieldAttrs ]
      \cup [ ident : {<<"a">>}, attr_ok : {FALSE}, attr : {DefaultFieldAttr} ]

UnnamedFields ==
    { [ ident |-> NoIdent, attr_ok |-> TRUE, attr |-> DefaultFieldAttr ] }

SeqsUpTo(S, n) == UNION { [1..k -> S] : k \in 0..n }

FieldLists == SeqsUpTo(NamedFields, MaxFields) \cup SeqsUpTo(UnnamedFields, MaxFields)

Inputs ==
    { [ parses |-> FALSE, ident |-> <<"X">>, attr_ok |-> TRUE,
        attr |-> DefaultStructAttr, data |-> "struct", fields |-> <<>> ] }
      \cup [ parses : {TRUE}, ident : StructIdents, attr_ok : {FALSE},
             attr : {DefaultStructAttr}, data : {"struct", "enum", "union"},
             fields : {<<>>} ]
      \cup [ parses : {TRUE}, ident : StructIdents, attr_ok : {TRUE},
             attr : StructAttrs, data : {"enum", "union"}, fields : {<<>>} ]
      \cup [ parses : {TRUE}, ident : StructIdents, attr_ok : {TRUE},
             attr : StructAttrs, data : {"struct"}, fields : FieldLists ]

\* Inputs that exercise field naming: raw identifiers, explicit names the renaming
\* rule would change, every form of the rename_fields option.
NamingFieldIdents == FieldIdents \cup { <<"r#", "a">>, <<"r#", "a", U, "b">> }

NamingFieldNames == { None, Some(<<"a", U, "b">>), Some(<<"a", "B">>) }

NamingRenameOpts == { None } \cup { Some(r) : r \in RenameRules }

NamingFields ==
    [ ident : NamingFieldIdents, attr_ok : {TRUE},
      attr : [ name : NamingFieldNames, ignore : BOOLEAN ] ]

NamingInputs ==
    [ parses : {TRUE}, ident : {<<"X">>}, attr_ok : {TRUE},
      attr : [ name : {None}, is_internal : {FALSE},
               rename_fields : NamingRenameOpts, enum : {None} ],
      data : {"struct"}, fields : SeqsUpTo(NamingFields, MaxFields) ]

(***************************************************************************)
(* parse_field                                                             *)
(***************************************************************************)
\* the renaming rule applied to an explicit name as well
FieldNameRenamesExplicit(f, renaming) ==
    RenameApply(renaming, IF f.attr.name.some THEN f.attr.name.v ELSE Unraw(f.ident))

FieldName(f, renaming) ==
    IF f.attr.name.some THEN f.attr.name.v
    ELSE RenameApply(renaming, Unraw(f.ident))

FieldDefinition(f, i, renaming) ==
    [ name |-> FieldName(f, renaming), ident |-> f.ident, ident_span |-> FieldIdentSpan(i),
      arguments |-> None, has_receiver |-> FALSE, is_async |-> FALSE ]

\* parse_field with the reserved-prefix check waived for internal interfaces
ParseFieldInternalExempt(f, i, renaming) ==
    IF f.ident = NoIdent
    THEN [ def |-> None, emitted |-> EmitCustom(FieldSpan(i), MsgUnnamed) ]
    ELSE IF ~f.attr_ok
    THEN [ def |-> None, emitted |-> <<Diag(MsgAttr, FieldAttrSpan(i))>> ]
    ELSE IF f.attr.ignore
    THEN [ def |-> None, emitted |-> <<>> ]
    ELSE IF ~ast.attr.is_internal /\ StartsWith(FieldName(f, renaming), DoubleUnderscore)
    THEN [ def |-> None,
           emitted |-> NoDoubleUnderscoreDiag(
               IF f.attr.name.some THEN FieldAttrNameSpan(i) ELSE FieldIdentSpan(i)) ]
    ELSE [ def |-> Some(FieldDefinition(f, i, renaming)), emitted |-> <<>> ]

\* parse_field with the ignore test placed after the reserved-prefix check
ParseFieldIgnoreLate(f, i, renaming) ==
    IF f.ident = NoIdent
    THEN [ def |-> None, emitted |-> EmitCustom(FieldSpan(i), MsgUnnamed) ]
    ELSE IF ~f.attr_ok
    THEN [ def |-> None, emitted |-> <<Diag(MsgAttr, FieldAttrSpan(i))>> ]
    ELSE IF StartsWith(FieldName(f, renaming), DoubleUnderscore)
    THEN [ def |-> None,
           emitted |-> NoDoubleUnderscoreDiag(
               IF f.attr.name.some THEN FieldAttrNameSpan(i) ELSE FieldIdentSpan(i)) ]
    ELSE IF f.attr.ignore
    THEN [ def |-> None, emitted |-> <<>> ]
    ELSE [ def |-> Some(FieldDefinition(f, i, renaming)), emitted |-> <<>> ]

ParseField(f, i, renaming) ==
    IF f.ident = NoIdent
    THEN [ def |-> None, emitted |-> EmitCustom(FieldSpan(i), MsgUnnamed) ]
    ELSE IF ~f.attr_ok
    THEN [ def |-> None, emitted |-> <<Diag(MsgAttr, FieldAttrSpan(i))>> ]
    ELSE IF f.attr.ignore
    THEN [ def |-> None, emitted |-> <<>> ]
    ELSE IF StartsWith(FieldName(f, renaming), DoubleUnderscore)
    THEN [ def |-> None,
           emitted |-> NoDoubleUnderscoreDiag(
               IF f.attr.name.some THEN FieldAttrNameSpan(i) ELSE FieldIdentSpan(i)) ]
    ELSE [ def |-> Some(FieldDefinition(f, i, renaming)), emitted |-> <<>> ]

AllDifferent(fs) ==
    \A i, j \in 1..Len(fs) : i # j => fs[i].name # fs[j].name

(***************************************************************************)
(* expand                                                                  *)
(***************************************************************************)
Renaming == IF ast.attr.rename_fields.some THEN ast.attr.rename_fields.v ELSE "CamelCase"

StructName == IF ast.attr.name.some THEN ast.attr.name.v ELSE Unraw(ast.ident)

\* the alias built from the exposed interface name instead of the struct identifier
EnumAliasIdentFromName ==
    IF ast.attr.enum.some THEN ast.attr.enum.v ELSE StructName \o <<"Value">>

EnumAliasIdent ==
    IF ast.attr.enum.some THEN ast.attr.enum.v ELSE ast.ident \o <<"Value">>

\* "ValueEnum" is the two tokens "Value", "Enum"
EnumIdent ==
    IF ast.attr.enum.some THEN ast.attr.enum.v \o <<"Enum">>
    ELSE ast.ident \o <<"Value", "Enum">>

Definition ==
    [ enum_ident |-> EnumIdent, enum_alias_ident |-> EnumAliasIdent,
      name |-> name.v, fields |-> fields ]

NoResult == [ kind |-> "none" ]
Err(e) == [ kind |-> "err", error |-> e ]
Ok(d) == [ kind |-> "ok", def |-> d ]
Aborted == [ kind |-> "aborted" ]

\* no request is in flight while a derive input is expanded
RocketIdle ==
    /\ rpc = "idle"
    /\ form_items = <<>>
    /\ strict = FALSE
    /\ form_pos = 0
    /\ query = None
    /\ operation_name = None
    /\ variables = None
    /\ form_result = NoResult
    /\ request = None
    /\ responses = <<>>
    /\ http_response = None

Init ==
    /\ ast \in Inputs
    /\ pc = "parse"
    /\ name = None
    /\ fields = <<>>
    /\ idx = 0
    /\ diags = <<>>
    /\ result = NoResult
    /\ RocketIdle

\* expand with the shape test ahead of the attribute parser
ParseInputShapeFirst ==
    /\ pc = "parse"
    /\ IF ~ast.parses
       THEN /\ result' = Err(CustomError(InputSpan, MsgSyntax))
            /\ pc' = "done"
       ELSE IF ast.data # "struct"
       THEN /\ result' = Err(CustomError(StructSpan, MsgNotStruct))
            /\ pc' = "done"
       ELSE IF ~ast.attr_ok
       THEN /\ result' = Err(CustomError(StructAttrSpan, MsgAttr))
            /\ pc' = "done"
       ELSE /\ result' = result
            /\ pc' = "name"
    /\ UNCHANGED <<ast, name, fields, idx, diags, rocketVars>>

\* lines 20-27: parse the input, parse the struct attributes, require a struct
ParseInput ==
    /\ pc = "parse"
    /\ IF ~ast.parses
       THEN /\ result' = Err(CustomError(InputSpan, MsgSyntax))
            /\ pc' = "done"
       ELSE IF ~ast.attr_ok
       THEN /\ result' = Err(CustomError(StructAttrSpan, MsgAttr))
            /\ pc' = "done"
       ELSE IF ast.data # "struct"
       THEN /\ result' = Err(CustomError(StructSpan, MsgNotStruct))
            /\ pc' = "done"
       ELSE /\ result' = result
            /\ pc' = "name"
    /\ UNCHANGED <<ast, name, fields, idx, diags, rocketVars>>

\* the name check without the is_internal exemption
ResolveNameNoExemption ==
    /\ pc = "name"
    /\ name' = Some(StructName)
    /\ diags' =
         IF StartsWith(StructName, DoubleUnderscore)
         THEN diags \o NoDoubleUnderscoreDiag(
                  IF ast.attr.name.some THEN StructAttrNameSpan ELSE StructIdentSpan)
         ELSE diags
    /\ pc' = "check_attr"
    /\ UNCHANGED <<ast, fields, idx, result, rocketVars>>

\* lines 29-46: the interface name, its reserved-prefix check, the scalar
ResolveName ==
    /\ pc = "name"
    /\ name' = Some(StructName)
    /\ diags' =
         IF ~ast.attr.is_internal /\ StartsWith(StructName, DoubleUnderscore)
         THEN diags \o NoDoubleUnderscoreDiag(
                  IF ast.attr.name.some THEN StructAttrNameSpan ELSE StructIdentSpan)
         ELSE diags
    /\ pc' = "check_attr"
    /\ UNCHANGED <<ast, fields, idx, result, rocketVars>>

\* line 48 left out
CheckAfterAttrMissing ==
    /\ pc = "check_attr"
    /\ pc' = "fields"
    /\ UNCHANGED <<ast, name, fields, idx, diags, result, rocketVars>>

\* line 48
CheckAfterAttr ==
    /\ pc = "check_attr"
    /\ IF AbortIfDirty(diags)
       THEN /\ result' = Aborted
            /\ pc' = "done"
       ELSE /\ result' = result
            /\ pc' = "fields"
    /\ UNCHANGED <<ast, name, fields, idx, diags, rocketVars>>

\* the field loop with an abort checkpoint after each item
NextFieldAbortPerItem ==
    /\ pc = "fields"
    /\ idx < Len(ast.fields)
    /\ LET r == ParseField(ast.fields[idx + 1], idx + 1, Renaming) IN
         /\ fields' = IF r.def.some THEN Append(fields, r.def.v) ELSE fields
         /\ diags' = diags \o r.emitted
         /\ IF AbortIfDirty(diags \o r.emitted)
            THEN /\ result' = Aborted
                 /\ pc' = "done"
            ELSE /\ result' = result
                 /\ pc' = pc
    /\ idx' = idx + 1
    /\ UNCHANGED <<ast, name, rocketVars>>

\* lines 56-60: one step of the iterator, parse_field on the next source field
NextField ==
    /\ pc = "fields"
    /\ idx < Len(ast.fields)
    /\ LET r == ParseField(ast.fields[idx + 1], idx + 1, Renaming) IN
         /\ fields' = IF r.def.some THEN Append(fields, r.def.v) ELSE fields
         /\ diags' = diags \o r.emitted
    /\ idx' = idx + 1
    /\ UNCHANGED <<ast, pc, name, result, rocketVars>>

\* line 60: the iterator is exhausted, the vector is collected
CollectFields ==
    /\ pc = "fields"
    /\ idx = Len(ast.fields)
    /\ pc' = "check_fields"
    /\ UNCHANGED <<ast, name, fields, idx, diags, result, rocketVars>>

\* line 62 left out
CheckAfterFieldsMissing ==
    /\ pc = "check_fields"
    /\ pc' = "post"
    /\ UNCHANGED <<ast, name, fields, idx, diags, result, rocketVars>>

\* line 62
CheckAfterFields ==
    /\ pc = "check_fields"
    /\ IF AbortIfDirty(diags)
       THEN /\ result' = Aborted
            /\ pc' = "done"
       ELSE /\ result' = result
            /\ pc' = "post"
    /\ UNCHANGED <<ast, name, fields, idx, diags, rocketVars>>

\* lines 64-66 left out
PostChecksNoEmptyCheck ==
    /\ pc = "post"
    /\ diags' = diags
         \o (IF ~AllDifferent(fields) THEN EmitCustom(StructSpan, MsgDuplicate) ELSE <<>>)
    /\ pc' = "check_post"
    /\ UNCHANGED <<ast, name, fields, idx, result, rocketVars>>

\* lines 67-69 left out
PostChecksNoDuplicateCheck ==
    /\ pc = "post"
    /\ diags' = diags
         \o (IF fields = <<>> THEN EmitCustom(StructSpan, MsgNoFields) ELSE <<>>)
    /\ pc' = "check_post"
    /\ UNCHANGED <<ast, name, fields, idx, result, rocketVars>>

\* lines 64-69
PostChecks ==
    /\ pc = "post"
    /\ diags' = diags
         \o (IF fields = <<>> THEN EmitCustom(StructSpan, MsgNoFields) ELSE <<>>)
         \o (IF ~AllDifferent(fields) THEN EmitCustom(StructSpan, MsgDuplicate) ELSE <<>>)
    /\ pc' = "check_post"
    /\ UNCHANGED <<ast, name, fields, idx, result, rocketVars>>

\* line 71 left out
CheckAfterPostMissing ==
    /\ pc = "check_post"
    /\ pc' = "emit"
    /\ UNCHANGED <<ast, name, fields, idx, diags, result, rocketVars>>

\* line 71
CheckAfterPost ==
    /\ pc = "check_post"
    /\ IF AbortIfDirty(diags)
       THEN /\ result' = Aborted
            /\ pc' = "done"
       ELSE /\ result' = result
            /\ pc' = "emit"
    /\ UNCHANGED <<ast, name, fields, idx, diags, rocketVars>>

\* lines 73-114
Emit ==
    /\ pc = "emit"
    /\ result' = Ok(Definition)
    /\ pc' = "done"
    /\ UNCHANGED <<ast, name, fields, idx, diags, rocketVars>>

Next ==
    \/ ParseInput
    \/ ResolveName
    \/ CheckAfterAttr
    \/ NextField
    \/ CollectFields
    \/ CheckAfterFields
    \/ PostChecks
    \/ CheckAfterPost
    \/ Emit

Spec == Init /\ [][Next]_vars

\* expand on the inputs that exercise field naming
InitNaming ==
    /\ ast \in NamingInputs
    /\ pc = "parse"
    /\ name = None
    /\ fields = <<>>
    /\ idx = 0
    /\ diags = <<>>
    /\ result = NoResult
    /\ RocketIdle

SpecNaming == InitNaming /\ [][Next]_vars

(***************************************************************************)
(* juniper_rocket: GraphQLRequest::from_form                               *)
(*                                                                         *)
(* A raw form value is a sequence of tokens: a plain character or one       *)
(* percent escape.  "%FF" is a byte that is not UTF-8.                      *)
(***************************************************************************)
MaxItems == 3

FormKeys == { "query", "operation_name", "variables", "foo" }

RawValues == { <<"a">>, <<"%7B", "%7D">>, <<"%7B">>, <<"%FF">> }

FormItemValues == [ key : FormKeys, value : RawValues ]

DecodeToken(t) ==
    CASE t = "%7B" -> "{"
      [] t = "%7D" -> "}"
      [] OTHER -> t

\* RawStr::url_decode: the percent-decoded string, or a Utf8Error
UrlDecode(raw) ==
    IF \E k \in 1..Len(raw) : raw[k] = "%FF"
    THEN [ ok |-> FALSE ]
    ELSE [ ok |-> TRUE, v |-> [ k \in 1..Len(raw) |-> DecodeToken(raw[k]) ] ]

\* serde_json::from_str::<InputValue<_>>: the value, or a JSON error
JsonFromStr(str) ==
    IF str = <<"{", "}">> THEN [ ok |-> TRUE, v |-> "object" ] ELSE [ ok |-> FALSE ]

\* error messages, as the pieces format! joins
MsgQueryTwice == << "Query parameter must not occur more than once" >>
MsgOperationNameTwice == << "Operation name parameter must not occur more than once" >>
MsgVariablesTwice == << "Variables parameter must not occur more than once" >>
MsgQueryMissing == << "Query parameter missing" >>
MsgUtf8 == << "invalid utf-8" >>
MsgJson == << "JSON error" >>
MsgProhibited(key) == << "Prohibited extra field '", key, "'" >>

HttpRequest(q, o, v) == [ query |-> q, operation_name |-> o, variables |-> v ]

Single(r) == [ kind |-> "Single", ops |-> <<r>> ]
Batch(rs) == [ kind |-> "Batch", ops |-> rs ]

Accepted(q, o, v) == [ query |-> q, operation_name |-> o, variables |-> v, err |-> None ]
Rejected(q, o, v, msg) ==
    [ query |-> q, operation_name |-> o, variables |-> v, err |-> Some(msg) ]

\* the loop body without the `strict` test of line 360
FromFormItemLenient(q, o, v, item, st) ==
    LET d == UrlDecode(item.value) IN
    CASE item.key = "query" ->
           IF q.some THEN Rejected(q, o, v, MsgQueryTwice)
           ELSE IF d.ok THEN Accepted(Some(d.v), o, v)
           ELSE Rejected(q, o, v, MsgUtf8)
      [] item.key = "operation_name" ->
           IF o.some THEN Rejected(q, o, v, MsgOperationNameTwice)
           ELSE IF d.ok THEN Accepted(q, Some(d.v), v)
           ELSE Rejected(q, o, v, MsgUtf8)
      [] item.key = "variables" ->
           IF v.some THEN Rejected(q, o, v, MsgVariablesTwice)
           ELSE IF ~d.ok THEN Rejected(q, o, v, MsgUtf8)
           ELSE IF JsonFromStr(d.v).ok THEN Accepted(q, o, Some(JsonFromStr(d.v).v))
           ELSE Rejected(q, o, v, MsgJson)
      [] OTHER -> Accepted(q, o, v)

\* lines 318-364: the loop body on one form item
FromFormItem(q, o, v, item, st) ==
    LET d == UrlDecode(item.value) IN
    CASE item.key = "query" ->
           IF q.some THEN Rejected(q, o, v, MsgQueryTwice)
           ELSE IF d.ok THEN Accepted(Some(d.v), o, v)
           ELSE Rejected(q, o, v, MsgUtf8)
      [] item.key = "operation_name" ->
           IF o.some THEN Rejected(q, o, v, MsgOperationNameTwice)
           ELSE IF d.ok THEN Accepted(q, Some(d.v), v)
           ELSE Rejected(q, o, v, MsgUtf8)
      [] item.key = "variables" ->
           IF v.some THEN Rejected(q, o, v, MsgVariablesTwice)
           ELSE IF ~d.ok THEN Rejected(q, o, v, MsgUtf8)
           ELSE IF JsonFromStr(d.v).ok THEN Accepted(q, o, Some(JsonFromStr(d.v).v))
           ELSE Rejected(q, o, v, MsgJson)
      [] OTHER ->
           IF st THEN Rejected(q, o, v, MsgProhibited(item.key))
           ELSE Accepted(q, o, v)

\* no derive input is expanded while a request is served
ExpandIdle ==
    /\ ast = [ parses |-> FALSE, ident |-> <<"X">>, attr_ok |-> TRUE,
               attr |-> DefaultStructAttr, data |-> "struct", fields |-> <<>> ]
    /\ pc = "idle"
    /\ name = None
    /\ fields = <<>>
    /\ idx = 0
    /\ diags = <<>>
    /\ result = NoResult

\* lines 317-365: one turn of the loop over the form items
FromFormNext ==
    /\ rpc = "form"
    /\ form_pos < Len(form_items)
    /\ LET r == FromFormItem(query, operation_name, variables,
                             form_items[form_pos + 1], strict) IN
         /\ query' = r.query
         /\ operation_name' = r.operation_name
         /\ variables' = r.variables
         /\ IF r.err.some
            THEN /\ form_result' = Err(r.err.v)
                 /\ rpc' = "done"
            ELSE /\ form_result' = form_result
                 /\ rpc' = rpc
    /\ form_pos' = form_pos + 1
    /\ UNCHANGED <<form_items, strict, request, responses, http_response, expandVars>>

\* lines 367-373: the loop is over; the request, or the missing-query error
FromFormFinish ==
    /\ rpc = "form"
    /\ form_pos = Len(form_items)
    /\ IF query.some
       THEN /\ form_result' =
                 Ok(Single(HttpRequest(query.v, operation_name, variables)))
            /\ request' = Some(Single(HttpRequest(query.v, operation_name, variables)))
            /\ rpc' = "execute"
       ELSE /\ form_result' = Err(MsgQueryMissing)
            /\ request' = request
            /\ rpc' = "done"
    /\ UNCHANGED <<form_items, strict, form_pos, query, operation_name, variables,
                   responses, http_response, expandVars>>

(***************************************************************************)
(* juniper_rocket: GraphQLRequest::execute                                 *)
(*                                                                         *)
(* The execution engine is outside this file: whether one operation        *)
(* succeeds is chosen freely at the step that executes it.                 *)
(***************************************************************************)
MaxBatch == 2

StatusOk == 200
StatusBadRequest == 400

BodyOps == { HttpRequest(<<"a">>, None, None), HttpRequest(<<"b">>, None, None) }

BodyRequests == { Single(r) : r \in BodyOps } \cup { Batch(rs) : rs \in SeqsUpTo(BodyOps, MaxBatch) }

RECURSIVE FoldOk(_, _)
FoldOk(rs, ok) == IF rs = <<>> THEN ok ELSE FoldOk(Tail(rs), ok /\ Head(rs).ok)

\* the fold keeping only the last response's verdict
IsOkLastOnly(response) ==
    IF response.kind = "Single" THEN response.items[1].ok
    ELSE IF response.items = <<>> THEN TRUE
    ELSE response.items[Len(response.items)].ok

\* lines 157-164: GraphQLBatchResponse::is_ok
IsOk(response) ==
    IF response.kind = "Single" THEN response.items[1].ok
    ELSE FoldOk(response.items, TRUE)

\* serde_json::to_string of the untagged GraphQLBatchResponse
ToJson(response) ==
    IF response.kind = "Single"
    THEN [ shape |-> "object", items |-> <<response.items[1]>> ]
    ELSE [ shape |-> "array", items |-> response.items ]

InitRocket ==
    /\ ExpandIdle
    /\ form_pos = 0
    /\ query = None
    /\ operation_name = None
    /\ variables = None
    /\ form_result = NoResult
    /\ responses = <<>>
    /\ http_response = None
    /\ \/ /\ rpc = "form"
          /\ form_items \in SeqsUpTo(FormItemValues, MaxItems)
          /\ strict \in BOOLEAN
          /\ request = None
       \/ /\ rpc = "execute"
          /\ form_items = <<>>
          /\ strict = FALSE
          /\ request \in { Some(r) : r \in BodyRequests }

\* lines 102-112: the next operation of the request is executed
ExecuteNext ==
    /\ rpc = "execute"
    /\ Len(responses) < Len(request.v.ops)
    /\ \E ok \in BOOLEAN :
         responses' =
             Append(responses, [ of |-> request.v.ops[Len(responses) + 1], ok |-> ok ])
    /\ UNCHANGED <<rpc, form_items, strict, form_pos, query, operation_name, variables,
                   form_result, request, http_response, expandVars>>

\* lines 207-215: status and body of the response
ExecuteRespond ==
    /\ rpc = "execute"
    /\ Len(responses) = Len(request.v.ops)
    /\ LET response == [ kind |-> request.v.kind, items |-> responses ] IN
         http_response' =
             Some([ status |-> IF IsOk(response) THEN StatusOk ELSE StatusBadRequest,
                    json |-> ToJson(response) ])
    /\ rpc' = "done"
    /\ UNCHANGED <<form_items, strict, form_pos, query, operation_name, variables,
                   form_result, request, responses, expandVars>>

NextRocket ==
    \/ FromFormNext
    \/ FromFormFinish
    \/ ExecuteNext
    \/ ExecuteRespond

SpecRocket == InitRocket /\ [][NextRocket]_vars

(***************************************************************************)
(* Vocabulary of the properties: a classification of the source, read off   *)
(* the input alone, and of the diagnostics recorded so far                 *)
(***************************************************************************)
IsStruct == ast.parses /\ ast.data = "struct"

ExposedStructName == IF ast.attr.name.some THEN ast.attr.name.v ELSE Unraw(ast.ident)

StructReserved == StartsWith(ExposedStructName, DoubleUnderscore)

Src(j) == ast.fields[j]

SrcNamed(j) == Src(j).ident # NoIdent

SrcIgnored(j) == SrcNamed(j) /\ Src(j).attr_ok /\ Src(j).attr.ignore

ExposedByRule ==
    [ r \in RenameRules |->
        [ id \in FieldIdents \cup {NoIdent} |-> RenameApply(r, Unraw(id)) ] ]

SrcExposed(j) ==
    IF Src(j).attr.name.some THEN Src(j).attr.name.v
    ELSE ExposedByRule[Renaming][Src(j).ident]

SrcReserved(j) ==
    /\ SrcNamed(j) /\ Src(j).attr_ok /\ ~Src(j).attr.ignore
    /\ StartsWith(SrcExposed(j), DoubleUnderscore)

SrcOffending(j) == ~SrcNamed(j) \/ ~Src(j).attr_ok \/ SrcReserved(j)

SrcRetained(j) ==
    /\ SrcNamed(j) /\ Src(j).attr_ok /\ ~Src(j).attr.ignore
    /\ ~StartsWith(SrcExposed(j), DoubleUnderscore)

NoRetainedField == \A j \in 1..Len(ast.fields) : ~SrcRetained(j)

DuplicateRetained ==
    \E i, j \in 1..Len(ast.fields) :
        i # j /\ SrcRetained(i) /\ SrcRetained(j) /\ SrcExposed(i) = SrcExposed(j)

FieldSpanKinds == {"field", "field_ident", "field_attr", "field_attr_name"}

DiagsOfField(j) ==
    { k \in 1..Len(diags) : diags[k].span.at \in FieldSpanKinds /\ diags[k].span.i = j }

FieldDiags == { k \in 1..Len(diags) : diags[k].span.at \in FieldSpanKinds }

StructNameDiags ==
    { k \in 1..Len(diags) :
        diags[k].msg = MsgReserved /\ diags[k].span.at \in {"struct_ident", "struct_attr_name"} }

HasDiag(msg) == \E k \in 1..Len(diags) : diags[k].msg = msg

Done == pc = "done"

Failed == result.kind \in {"err", "aborted"}

(***************************************************************************)
(* C1                                                                      *)
(***************************************************************************)
\* C1 (as stated): a struct with no retained field always ends in failure with the
\* "must have at least one field" diagnostic recorded, whatever the struct options.
C1_AsStated ==
    (Done /\ IsStruct /\ ast.attr_ok /\ NoRetainedField) =>
        (Failed /\ HasDiag(MsgNoFields))

\* C1 (amended): a struct with no retained field always ends in failure; the
\* "must have at least one field" diagnostic is recorded, once and at the struct span,
\* exactly when the struct attributes parse, the interface name raised no reserved-prefix
\* diagnostic and no source field raised a diagnostic (no fields, or all ignored).
C1_EmptyInterface ==
    (Done /\ IsStruct /\ NoRetainedField) =>
        /\ Failed
        /\ HasDiag(MsgNoFields) <=>
             /\ ast.attr_ok
             /\ ~(StructReserved /\ ~ast.attr.is_internal)
             /\ \A j \in 1..Len(ast.fields) : SrcIgnored(j)
        /\ HasDiag(MsgNoFields) => diags = <<Diag(MsgNoFields, StructSpan)>>

\* C1 witness: a finished run on a struct whose fields are all ignored, with the
\* empty-interface diagnostic recorded.
C1_Witness ==
    /\ Done /\ IsStruct /\ NoRetainedField /\ Len(ast.fields) > 0
    /\ HasDiag(MsgNoFields) /\ result = Aborted

C3_FieldReservedPrefix ==
    \A j \in 1..idx :
        SrcReserved(j) =>
            /\ \A k \in 1..Len(fields) : fields[k].ident_span # FieldIdentSpan(j)
            /\ Cardinality(DiagsOfField(j)) = 1
            /\ \A k \in DiagsOfField(j) :
                  diags[k] = Diag(MsgReserved,
                                  IF Src(j).attr.name.some THEN FieldAttrNameSpan(j)
                                  ELSE FieldIdentSpan(j))

\* C3 witness: an internal interface, finished, with a field whose renamed identifier
\* starts with __ and a field whose explicit name does.
C3_Witness ==
    /\ Done /\ IsStruct /\ ast.attr_ok /\ ast.attr.is_internal /\ idx = 2
    /\ SrcReserved(1) /\ ~Src(1).attr.name.some
    /\ SrcReserved(2) /\ Src(2).attr.name.some
    /\ Len(diags) = 2

(***************************************************************************)
(* C4                                                                      *)
(***************************************************************************)
\* C4: once the name is resolved, an interface name starting with __ has a
\* reserved-prefix diagnostic recorded if and only if is_internal is false, and that
\* diagnostic is single and anchored at the explicit name if given, else at the
\* struct identifier.
C4_StructReservedPrefix ==
    (name.some /\ StructReserved) =>
        /\ name.v = ExposedStructName
        /\ (StructNameDiags # {}) <=> ~ast.attr.is_internal
        /\ Cardinality(StructNameDiags) <= 1
        /\ \A k \in StructNameDiags :
              diags[k].span = IF ast.attr.name.some THEN StructAttrNameSpan
                              ELSE StructIdentSpan

\* C4 witness: an internal interface with a raw identifier whose de-escaped form
\* starts with __, run to a produced Definition without any diagnostic.
C4_Witness ==
    /\ Done /\ result.kind = "ok" /\ ast.attr.is_internal
    /\ ~ast.attr.name.some /\ Head(ast.ident) = "r#" /\ StructReserved
    /\ diags = <<>>

(***************************************************************************)
(* C5                                                                      *)
(***************************************************************************)
\* C5: a finished run has produced a Definition if and only if nothing was raised
\* (no diagnostic emitted, no error returned); and a run that holds a diagnostic is
\* never past the checkpoint that follows the block which raised it: it is not in the
\* post-pass checks with one, not in the emission block, and never holds a Definition.
C5_DefinitionIffClean ==
    /\ Done => (result.kind = "ok" <=> (diags = <<>> /\ result.kind # "err"))
    /\ diags # <<>> =>
          /\ result.kind \in {"none", "aborted"}
          /\ pc \in {"check_attr", "fields", "check_fields", "check_post", "done"}
          /\ pc = "fields" => (idx > 0 /\ StructNameDiags = {})
          /\ pc = "check_fields" => StructNameDiags = {}
          /\ pc = "check_post" => FieldDiags = {} /\ StructNameDiags = {}
          /\ Done => result = Aborted
    /\ result.kind = "ok" => (Done /\ name.some /\ result.def.fields = fields)

\* C5 witness: a run aborted at the checkpoint after the post-pass checks, holding
\* retained fields but no Definition.
C5_Witness ==
    /\ Done /\ result = Aborted /\ Len(fields) = 2 /\ HasDiag(MsgDuplicate)

(***************************************************************************)
(* C6                                                                      *)
(***************************************************************************)
ReachedFieldStage == IsStruct /\ ast.attr_ok /\ StructNameDiags = {}

ExpectedFieldDiag(j) ==
    IF ~SrcNamed(j) THEN Diag(MsgUnnamed, FieldSpan(j))
    ELSE IF ~Src(j).attr_ok THEN Diag(MsgAttr, FieldAttrSpan(j))
    ELSE Diag(MsgReserved,
              IF Src(j).attr.name.some THEN FieldAttrNameSpan(j) ELSE FieldIdentSpan(j))

RECURSIVE ExpectedFieldDiags(_)
ExpectedFieldDiags(k) ==
    IF k = 0 THEN <<>>
    ELSE ExpectedFieldDiags(k - 1)
           \o (IF SrcOffending(k) THEN <<ExpectedFieldDiag(k)>> ELSE <<>>)

IsFieldDiag(d) == d.span.at \in FieldSpanKinds

\* C6: the checkpoint after the field stage is met only once every source field has
\* been examined, in declaration order: a run that entered the field stage and left
\* it has examined all fields, and the per-field diagnostics recorded are, in
\* declaration order, exactly one for each examined offending field (unnamed,
\* unparseable attributes, reserved name) and none for any other field.
C6_CheckpointPerStage ==
    /\ pc \in {"check_fields", "post", "check_post", "emit"} => idx = Len(ast.fields)
    /\ (Done /\ ReachedFieldStage) => idx = Len(ast.fields)
    /\ SelectSeq(diags, IsFieldDiag) = ExpectedFieldDiags(idx)

\* C6 witness: a finished run over two offending fields of different kinds, both
\* diagnostics recorded.
C6_Witness ==
    /\ Done /\ idx = 2 /\ ~Src(1).attr_ok /\ SrcReserved(2)
    /\ diags = <<ExpectedFieldDiag(1), ExpectedFieldDiag(2)>>

(***************************************************************************)
(* C7                                                                      *)
(***************************************************************************)
OnlyFieldIsReserved ==
    /\ IsStruct /\ ast.attr_ok /\ ~(StructReserved /\ ~ast.attr.is_internal)
    /\ \E j \in 1..Len(ast.fields) :
          /\ SrcReserved(j)
          /\ \A i \in 1..Len(ast.fields) : i # j => SrcIgnored(i)

\* C7 (as stated): for a struct whose only non-ignored field has a reserved name the
\* run records the field's reserved-prefix diagnostic and also the
\* "must have at least one field" diagnostic.
C7_AsStated ==
    (Done /\ OnlyFieldIsReserved) =>
        (Cardinality(FieldDiags) = 1 /\ HasDiag(MsgNoFields))

\* C7 (amended): the post-pass checks run only in a run without any earlier
\* diagnostic: a post-pass diagnostic is never recorded beside a per-field or
\* struct-level one.  For a struct whose only non-ignored field has a reserved name the
\* run aborts with exactly that field's reserved-prefix diagnostic.
C7_PostChecksNeedCleanRun ==
    /\ (HasDiag(MsgNoFields) \/ HasDiag(MsgDuplicate)) =>
          (FieldDiags = {} /\ StructNameDiags = {})
    /\ pc = "post" => diags = <<>>
    /\ (Done /\ OnlyFieldIsReserved) =>
          /\ result = Aborted
          /\ Len(diags) = 1
          /\ diags[1].msg = MsgReserved /\ diags[1].span.at \in FieldSpanKinds

\* C7 witness: a finished run on a struct with an ignored field and one field named
\* with the reserved prefix.
C7_Witness ==
    /\ Done /\ OnlyFieldIsReserved /\ Len(ast.fields) = 2
    /\ Len(diags) = 1 /\ fields = <<>>

(***************************************************************************)
(* C8                                                                      *)
(***************************************************************************)
\* C8 (as stated): after a struct-level reserved-prefix diagnostic the field stage
\* still runs, so every offending field of the struct has its diagnostic too.
C8_AsStated ==
    (Done /\ StructNameDiags # {}) =>
        /\ idx = Len(ast.fields)
        /\ \A j \in 1..Len(ast.fields) : SrcOffending(j) => DiagsOfField(j) # {}

\* C8 (amended): a struct-level reserved-prefix diagnostic is recorded without ending
\* the run at once, and the checkpoint that follows ends the run before the field
\* stage: no source field is examined and the diagnostic stays the only one.
C8_StructViolationStopsBeforeFields ==
    StructNameDiags # {} =>
        /\ pc \in {"check_attr", "done"}
        /\ pc = "check_attr" => result = NoResult
        /\ Done => result = Aborted
        /\ idx = 0 /\ fields = <<>>
        /\ Len(diags) = 1

\* C8 witness: a run aborted on the struct-level diagnostic although the struct
\* has an offending field.
C8_Witness ==
    /\ Done /\ StructNameDiags # {} /\ FieldDiags = {}
    /\ \E j \in 1..Len(ast.fields) : SrcOffending(j)

(***************************************************************************)
(* C9                                                                      *)
(***************************************************************************)
\* C9 (as stated): a source that is not a struct always ends with the
\* "can only be derived on structs" error.
C9_AsStated ==
    (Done /\ ast.parses /\ ast.data # "struct") =>
        result = Err(Diag(MsgNotStruct, StructSpan))

\* C9 (amended): a source that is not a struct ends at once in an error, before the
\* interface name is resolved and with no diagnostic emitted; the error is the
\* "can only be derived on structs" one at the input's span when the struct-level
\* attributes parse, and the attribute parser's error when they do not.
C9_NotAStruct ==
    (Done /\ ast.parses /\ ast.data # "struct") =>
        /\ result = IF ast.attr_ok THEN Err(Diag(MsgNotStruct, StructSpan))
                    ELSE Err(Diag(MsgAttr, StructAttrSpan))
        /\ diags = <<>> /\ ~name.some /\ idx = 0

\* C9 witness: an enum with a reserved name and parseable attributes, rejected for
\* its shape before the name check.
C9_Witness ==
    /\ Done /\ ast.parses /\ ast.data = "enum" /\ ast.attr_ok
    /\ StructReserved /\ ~ast.attr.is_internal
    /\ result = Err(Diag(MsgNotStruct, StructSpan))

(***************************************************************************)
(* C10                                                                     *)
(***************************************************************************)
NotIgnored == { j \in 1..Len(ast.fields) : ~SrcIgnored(j) }

\* C10: an examined field that is named, whose attributes parse and that carries
\* ignore has no diagnostic and no field definition, whatever its name; and right
\* after the post-pass checks the empty-interface diagnostic is there exactly when
\* every source field is ignored, the duplicate-name diagnostic exactly when two
\* fields that are not ignored share an exposed name.
C10_IgnoredFieldIsSilent ==
    /\ \A j \in 1..idx :
          SrcIgnored(j) =>
              /\ DiagsOfField(j) = {}
              /\ \A k \in 1..Len(fields) : fields[k].ident_span # FieldIdentSpan(j)
    /\ pc = "check_post" =>
          /\ Len(fields) = Cardinality(NotIgnored)
          /\ HasDiag(MsgNoFields) <=> NotIgnored = {}
          /\ HasDiag(MsgDuplicate) <=>
                \E i, j \in NotIgnored : i # j /\ SrcExposed(i) = SrcExposed(j)

\* C10 witness: a Definition produced from an ignored field whose name starts with
\* __ followed by a retained field, and one produced from an ignored and a retained
\* field of the same exposed name (either one).
C10_Witness ==
    /\ Done /\ result.kind = "ok" /\ Len(ast.fields) = 2 /\ Len(result.def.fields) = 1
    /\ SrcIgnored(1) /\ SrcRetained(2)
    /\ \/ StartsWith(SrcExposed(1), DoubleUnderscore)
       \/ SrcExposed(1) = SrcExposed(2)

(***************************************************************************)
(* C11                                                                     *)
(***************************************************************************)
RuleInForce ==
    IF ast.attr.rename_fields.some THEN ast.attr.rename_fields.v ELSE "CamelCase"

ExpectedName(j) ==
    IF Src(j).attr.name.some THEN Src(j).attr.name.v
    ELSE RenameApply(RuleInForce, Unraw(Src(j).ident))

ExpectedRetained(j) ==
    /\ SrcNamed(j) /\ Src(j).attr_ok /\ ~Src(j).attr.ignore
    /\ ~StartsWith(ExpectedName(j), DoubleUnderscore)

RECURSIVE ExpectedFields(_)
ExpectedFields(k) ==
    IF k = 0 THEN <<>>
    ELSE ExpectedFields(k - 1)
           \o (IF ExpectedRetained(k)
               THEN << [ name |-> ExpectedName(k), ident |-> Src(k).ident,
                         ident_span |-> FieldIdentSpan(k) ] >>
               ELSE <<>>)

NameAndOrigin(fs) ==
    [ k \in 1..Len(fs) |->
        [ name |-> fs[k].name, ident |-> fs[k].ident, ident_span |-> fs[k].ident_span ] ]

\* C11: the retained fields are, in declaration order, the examined source fields
\* that are retained, each with the exposed name: its explicit name verbatim when
\* given, else the rule in force (camelCase when rename_fields is absent) applied
\* to its de-escaped identifier; a produced Definition carries exactly these for all
\* source fields.
C11_ExposedNamesInOrder ==
    /\ NameAndOrigin(fields) = ExpectedFields(idx)
    /\ result.kind = "ok" =>
          NameAndOrigin(result.def.fields) = ExpectedFields(Len(ast.fields))

\* C11 witness: a Definition, under the default rule, of a field with an explicit
\* name that camelCase would change followed by a raw snake_case identifier.
C11_Witness ==
    /\ Done /\ result.kind = "ok" /\ ~ast.attr.rename_fields.some
    /\ Len(result.def.fields) = 2
    /\ Src(1).attr.name = Some(<<"a", U, "b">>)
    /\ result.def.fields[1].name = <<"a", U, "b">>
    /\ Src(2).ident = <<"r#", "a", U, "b">> /\ ~Src(2).attr.name.some
    /\ result.def.fields[2].name = <<"a", "B">>

(***************************************************************************)
(* C12                                                                     *)
(***************************************************************************)
\* C12: in every produced Definition, enum_alias_ident is the struct identifier
\* followed by "Value" when the enum option is absent and the option's value verbatim
\* when present; enum_ident is enum_alias_ident followed by "Enum"; both are fixed
\* by the struct identifier and the enum option alone, whatever the name option and
\* the fields.
C12_NameSynthesis ==
    result.kind = "ok" =>
        /\ result.def.enum_alias_ident =
              IF ast.attr.enum.some THEN ast.attr.enum.v ELSE ast.ident \o <<"Value">>
        /\ result.def.enum_ident =
              IF ast.attr.enum.some THEN ast.attr.enum.v \o <<"Enum">>
              ELSE ast.ident \o <<"Value">> \o <<"Enum">>
        /\ result.def.enum_ident = result.def.enum_alias_ident \o <<"Enum">>

\* C12 witness: a Definition with an explicit interface name and no enum option,
\* its two identifiers built from the struct identifier.
C12_Witness ==
    /\ Done /\ result.kind = "ok" /\ ~ast.attr.enum.some
    /\ ast.attr.name = Some(<<"Y">>) /\ ast.ident = <<"X">>
    /\ result.def.name = <<"Y">>
    /\ result.def.enum_alias_ident = <<"X", "Value">>
    /\ result.def.enum_ident = <<"X", "Value", "Enum">>
    /\ Len(result.def.fields) = 2

(***************************************************************************)
(* C13                                                                     *)
(***************************************************************************)
KnownKeys == { "query", "operation_name", "variables" }

ItemsWithKey(k) == { i \in 1..Len(form_items) : form_items[i].key = k }

SeenBefore(i) == \E j \in 1..(i - 1) : form_items[j].key = form_items[i].key

Decodes(i) == UrlDecode(form_items[i].value).ok

Decoded(i) == UrlDecode(form_items[i].value).v

ItemViolates(i) ==
    IF form_items[i].key \in KnownKeys
    THEN \/ SeenBefore(i)
         \/ ~Decodes(i)
         \/ form_items[i].key = "variables" /\ ~JsonFromStr(Decoded(i)).ok
    ELSE strict

ItemMessage(i) ==
    IF form_items[i].key \notin KnownKeys THEN MsgProhibited(form_items[i].key)
    ELSE IF SeenBefore(i)
    THEN CASE form_items[i].key = "query" -> MsgQueryTwice
           [] form_items[i].key = "operation_name" -> MsgOperationNameTwice
           [] OTHER -> MsgVariablesTwice
    ELSE IF ~Decodes(i) THEN MsgUtf8
    ELSE MsgJson

Violations == { i \in 1..Len(form_items) : ItemViolates(i) }

FirstViolation == CHOOSE i \in Violations : \A j \in Violations : i <= j

FormAcceptable ==
    /\ Cardinality(ItemsWithKey("query")) = 1
    /\ Cardinality(ItemsWithKey("operation_name")) <= 1
    /\ Cardinality(ItemsWithKey("variables")) <= 1
    /\ \A i \in 1..Len(form_items) : form_items[i].key \in KnownKeys => Decodes(i)
    /\ \A i \in ItemsWithKey("variables") : JsonFromStr(Decoded(i)).ok
    /\ strict => \A i \in 1..Len(form_items) : form_items[i].key \in KnownKeys

OnlyValue(k) ==
    IF ItemsWithKey(k) = {} THEN None
    ELSE Some(Decoded(CHOOSE i \in ItemsWithKey(k) : TRUE))

\* C13: once from_form has returned, it returned Ok exactly when query occurs once,
\* operation_name and variables at most once, all their values decode, variables is
\* valid JSON and, in strict mode, no other key occurs; the Ok request holds the
\* decoded values; a form with a violating item yields the message of the first such
\* item in form order; "Query parameter missing" is returned exactly when no item
\* violates and no query occurs; outside strict mode other keys are ignored.
C13_FromForm ==
    form_result.kind # "none" =>
        /\ form_result.kind = "ok" <=> FormAcceptable
        /\ Violations # {} => form_result = Err(ItemMessage(FirstViolation))
        /\ (Violations = {} /\ ItemsWithKey("query") = {}) =>
              form_result = Err(MsgQueryMissing)
        /\ form_result = Err(MsgQueryMissing) =>
              (Violations = {} /\ ItemsWithKey("query") = {})
        /\ (Violations = {} /\ ItemsWithKey("query") # {}) =>
              form_result =
                  Ok(Single(HttpRequest(
                      OnlyValue("query").v,
                      OnlyValue("operation_name"),
                      IF ItemsWithKey("variables") = {} THEN None ELSE Some("object"))))

\* C13 witness: a form of three items, not strict, with an unknown key ahead of
\* percent-encoded variables and the query, accepted.
C13_Witness ==
    /\ form_result.kind = "ok" /\ ~strict /\ Len(form_items) = 3
    /\ form_items[1].key = "foo"
    /\ form_items[2] = [ key |-> "variables", value |-> <<"%7B", "%7D">> ]
    /\ form_items[3].key = "query"
    /\ form_result.def.ops[1].variables = Some("object")

(***************************************************************************)
(* C14                                                                     *)
(***************************************************************************)
\* C14: the response of execute has status 200 exactly when every executed operation
\* succeeded and status 400 otherwise; a single request yields one response object
\* for that request, a batch of n requests an array of n responses, the i-th being
\* that of the i-th request (so an empty batch yields an empty array and 200).
C14_ExecuteStatus ==
    http_response.some =>
        LET ops == request.v.ops
            status == http_response.v.status
            body == http_response.v.json
        IN  /\ status = 200 <=> \A i \in 1..Len(responses) : responses[i].ok
            /\ status = 400 <=> \E i \in 1..Len(responses) : ~responses[i].ok
            /\ Len(body.items) = Len(ops)
            /\ \A i \in 1..Len(ops) : body.items[i] = responses[i] /\ body.items[i].of = ops[i]
            /\ body.shape = IF request.v.kind = "Batch" THEN "array" ELSE "object"
            /\ request.v.kind = "Single" => Len(ops) = 1

\* C14 witness: a batch of two different requests, the first failed and the second
\* succeeded, answered 400 with both responses in request order.
C14_Witness ==
    /\ http_response.some /\ request.v.kind = "Batch" /\ Len(request.v.ops) = 2
    /\ request.v.ops[1] # request.v.ops[2]
    /\ ~responses[1].ok /\ responses[2].ok
    /\ http_response.v.status = 400
    /\ http_response.v.json.shape = "array"

=============================================================================
